---- MODULE Spec2Model ----
(***************************************************************************)
(* State-machine model of sudoku_solver.py: the validator, the candidate   *)
(* grid initialisation, Rule A (single_option_processing), Rule B          *)
(* (grid_scanning) and the recursive search (sudoku_solver_sub_func).      *)
(*                                                                         *)
(* Python objects that the code mutates in place (the options grid, the    *)
(* output grid and the set of single-option squares) live in `heap`; a     *)
(* call frame holds a reference into the heap, so that copying an object   *)
(* and aliasing it are different things in the model, as they are in       *)
(* Python.                                                                 *)
(***************************************************************************)
EXTENDS Integers, FiniteSets, Sequences, TLC

VARIABLES
    starting_grid,  \* the grid typed into the GUI: [Cells -> 0..9]
    phase,          \* where the top-level program (read_squares / sudoku_solver) is
    heap,           \* sequence of [options_grid, output_grid, single_option_squares]
    stack,          \* call stack of sudoku_solver_sub_func, root first
    returned        \* the value a call has returned: a grid, or NoGrid

vars == <<starting_grid, phase, heap, stack, returned>>

-----------------------------------------------------------------------------
(* Program constants *)

\* range(9): rows, columns, boxes and digits 1..9
N == 9

\* the side of a box (row_num // 3)
BoxSide == 3

Index == 0 .. (N - 1)
Digits == 1 .. N
Cells == Index \X Index

NoGrid == <<>>

-----------------------------------------------------------------------------
(* Geometry utilities *)

row_col2box(row_num, col_num) ==
    BoxSide * (row_num \div BoxSide) + (col_num \div BoxSide)

box2start_row_col(box_num) ==
    <<BoxSide * (box_num \div BoxSide), BoxSide * (box_num % BoxSide)>>

\* the cell of box box_num at offset delta: (start_row + delta // 3, start_col + delta % 3)
BoxCell(box_num, delta) ==
    LET start == box2start_row_col(box_num)
    IN  <<start[1] + (delta \div BoxSide), start[2] + (delta % BoxSide)>>

\* position of a square in a row-by-row traversal (enumerate over the rows)
RowMajor(cell) == N * cell[1] + cell[2]

RowCells(row_num) == {<<row_num, col_num2>> : col_num2 \in Index}
ColCells(col_num) == {<<row_num2, col_num>> : row_num2 \in Index}
BoxCells(box_num) == {BoxCell(box_num, delta) : delta \in Index}

\* the three groups a cell belongs to, without the cell itself
RowPeers(cell) == RowCells(cell[1]) \ {cell}
ColPeers(cell) == ColCells(cell[2]) \ {cell}
BoxPeers(cell) == BoxCells(row_col2box(cell[1], cell[2])) \ {cell}
\* the squares the three passes of single_option_processing visit, per square
PeerTable ==
    [cell \in Cells |-> RowPeers(cell) \cup ColPeers(cell) \cup BoxPeers(cell)]

Peers(cell) == PeerTable[cell]

-----------------------------------------------------------------------------
(* Validator *)

\* len(set(group) - {0}) != 9 - group.count(0)  is a duplicate
GroupHasNoDuplicate(grid, group) ==
    Cardinality({grid[cell] : cell \in group} \ {0})
        = N - Cardinality({cell \in group : grid[cell] = 0})

\* faulty variant: the box pass (lines 105-110) left out
is_valid_rows_cols_only(grid) ==
    /\ \A row_num \in Index : GroupHasNoDuplicate(grid, RowCells(row_num))
    /\ \A col_num \in Index : GroupHasNoDuplicate(grid, ColCells(col_num))

is_valid_starting_grid(grid) ==
    /\ \A row_num \in Index : GroupHasNoDuplicate(grid, RowCells(row_num))
    /\ \A col_num \in Index : GroupHasNoDuplicate(grid, ColCells(col_num))
    /\ \A box_num \in Index : GroupHasNoDuplicate(grid, BoxCells(box_num))

-----------------------------------------------------------------------------
(* Candidate grid initialisation *)

GroupOptions(grid, group) == Digits \ {grid[cell] : cell \in group}

InitialOptions(grid, cell) ==
    IF grid[cell] # 0
    THEN {grid[cell]}
    ELSE GroupOptions(grid, RowCells(cell[1]))
            \cap GroupOptions(grid, ColCells(cell[2]))
            \cap GroupOptions(grid, BoxCells(row_col2box(cell[1], cell[2])))

\* faulty variant: the output grid starts blank instead of as a copy of the starting grid
BlankOutputGrid(grid) == [cell \in Cells |-> 0]

\* line 158: output_grid = deepcopy(starting_grid)
InitialOutputGrid(grid) == grid

initialise_grid(grid) ==
    LET options_grid == [cell \in Cells |-> InitialOptions(grid, cell)]
    IN  [options_grid |-> options_grid,
         single_option_squares |->
            {cell \in Cells : grid[cell] = 0 /\ Cardinality(options_grid[cell]) = 1}]

-----------------------------------------------------------------------------
(* Rule A: one iteration of the while loop of single_option_processing *)

\* The square popped from single_option_squares holds exactly one option
\* ([output_grid[r][c]] = options_grid[r][c] unpacks a one-element set).
TheOption(options) == CHOOSE option \in options : TRUE

\* faulty variant: the subtraction left out
EliminateNothing(options_grid, cell, peer) == options_grid[peer]

\* faulty variant: a peer that is down to one option is skipped
EliminateOnlyOpen(options_grid, cell, peer) ==
    IF Cardinality(options_grid[peer]) > 1
    THEN options_grid[peer] \ options_grid[cell]
    ELSE options_grid[peer]

\* options_grid[peer] -= options_grid[cell]
Eliminate(options_grid, cell, peer) == options_grid[peer] \ options_grid[cell]

\* faulty variant: lines 291, 302 and 319 without the test output_grid[..] == 0
SingleOptionPopMarksFilled(obj, cell) ==
    LET options_grid == obj.options_grid
        peers == Peers(cell)
    IN  IF \E peer \in peers : Eliminate(options_grid, cell, peer) = {}
        THEN [ok |-> FALSE, obj |-> obj]
        ELSE [ok |-> TRUE,
              obj |-> [options_grid |->
                          [peer \in Cells |->
                              IF peer \in peers
                              THEN Eliminate(options_grid, cell, peer)
                              ELSE options_grid[peer]],
                       output_grid |->
                          [obj.output_grid EXCEPT ![cell] = TheOption(options_grid[cell])],
                       single_option_squares |->
                          (obj.single_option_squares \ {cell})
                          \cup {peer \in peers :
                                  Cardinality(Eliminate(options_grid, cell, peer)) = 1}]]

\* One pop-and-eliminate iteration on the object triple obj.  The three
\* passes (row, column, box) subtract the same one-element set from every
\* peer, so the order of the passes does not change the sets; a peer left
\* with no option makes the function return False at once (ok = FALSE), and
\* the objects of the call are then dropped with its frame.
SingleOptionPop(obj, cell) ==
    LET options_grid == obj.options_grid
        output_grid2 == [obj.output_grid EXCEPT ![cell] = TheOption(options_grid[cell])]
        peers == Peers(cell)
    IN  IF \E peer \in peers : Eliminate(options_grid, cell, peer) = {}
        THEN [ok |-> FALSE, obj |-> obj]
        ELSE [ok |-> TRUE,
              obj |-> [options_grid |->
                          [peer \in Cells |->
                              IF peer \in peers
                              THEN Eliminate(options_grid, cell, peer)
                              ELSE options_grid[peer]],
                       output_grid |-> output_grid2,
                       single_option_squares |->
                          (obj.single_option_squares \ {cell})
                          \cup {peer \in peers :
                                  /\ Cardinality(Eliminate(options_grid, cell, peer)) = 1
                                  /\ output_grid2[peer] = 0}]]

is_sudoku_complete(output_grid) == \A cell \in Cells : output_grid[cell] # 0

-----------------------------------------------------------------------------
(* Rule B: grid_scanning *)

\* faulty variant: the list of the other squares misses its first square (range(1, 9))
UniqueOptionsSkipFirst(options_grid, cell, group) ==
    LET first == CHOOSE p \in group : \A q \in group : RowMajor(p) <= RowMajor(q)
    IN  options_grid[cell] \ UNION {options_grid[peer] : peer \in group \ {first}}

\* square_options - union of the options of the other squares of the group
UniqueOptions(options_grid, cell, group) ==
    options_grid[cell] \ UNION {options_grid[peer] : peer \in group}

\* The set a square is forced to: the row test first, then the column test,
\* then the box test; {} when none of the three leaves exactly one option.
ScanSquare(options_grid, cell) ==
    LET row_unique == UniqueOptions(options_grid, cell, RowPeers(cell))
        col_unique == UniqueOptions(options_grid, cell, ColPeers(cell))
        box_unique == UniqueOptions(options_grid, cell, BoxPeers(cell))
    IN  IF Cardinality(row_unique) = 1 THEN row_unique
        ELSE IF Cardinality(col_unique) = 1 THEN col_unique
        ELSE IF Cardinality(box_unique) = 1 THEN box_unique
        ELSE {}

\* The squares at which a traversal can stop.  sample(range(9), 9) draws a
\* fresh permutation of the rows and, per row, of the columns, and the scan
\* returns at the first square it can force: every such square comes first
\* in some pair of permutations, and no other square can be the result.
Scannable(options_grid) ==
    {cell \in Cells :
        Cardinality(options_grid[cell]) > 1 /\ ScanSquare(options_grid, cell) # {}}

grid_scanning(obj, cell) ==
    [obj EXCEPT !.options_grid[cell] = ScanSquare(obj.options_grid, cell),
                !.single_option_squares = @ \cup {cell}]

-----------------------------------------------------------------------------
(* Search controller helpers *)

\* faulty variant: 1 <= len(square) in place of 1 < len(square)
BranchSquaresFromOne(options_grid) ==
    {cell \in Cells : Cardinality(options_grid[cell]) >= 1}

\* squares with more than one option; minimum_options_square leaves its
\* result unbound (UnboundLocalError) when there is none
BranchSquares(options_grid) == {cell \in Cells : Cardinality(options_grid[cell]) > 1}

\* the first square in row-major order among those with the fewest (> 1) options
minimum_options_square(options_grid) ==
    CHOOSE cell \in BranchSquares(options_grid) :
        \A other \in BranchSquares(options_grid) :
            \/ Cardinality(options_grid[cell]) < Cardinality(options_grid[other])
            \/ /\ Cardinality(options_grid[cell]) = Cardinality(options_grid[other])
               /\ RowMajor(cell) <= RowMajor(other)

\* faulty variant: the objects are handed to the recursive call without copying
AliasCopy(h, ref) == [heap |-> h, ref |-> ref]

\* deepcopy of the three objects of a call: a fresh heap object with the same value
DeepCopy(h, ref) == [heap |-> Append(h, h[ref]), ref |-> Len(h) + 1]

\* faulty variant: line 215 left out, the forced square is not marked pending
ForceOptionNotPending(obj, cell, option) ==
    [obj EXCEPT !.options_grid[cell] = {option}]

\* lines 214-215: force the branching square to one option and mark it pending
ForceOption(obj, cell, option) ==
    [obj EXCEPT !.options_grid[cell] = {option},
                !.single_option_squares = @ \cup {cell}]

\* A call of sudoku_solver_sub_func: its objects, its position, its locals.
\* entry is a history field, not a local of the code: the value the objects
\* had when single_option_processing was last called.
Frame(ref, pc, first_time) ==
    [ref |-> ref, pc |-> pc, first_time |-> first_time,
     min_options_square |-> <<0, 0>>, options |-> {}, entry |-> NoGrid]

MaxRef(stk) ==
    IF stk = <<>> THEN 0
    ELSE CHOOSE ref \in {stk[i].ref : i \in 1..Len(stk)} :
            \A i \in 1..Len(stk) : stk[i].ref <= ref

\* objects no frame refers to any more are garbage
Collect(h, stk) == SubSeq(h, 1, MaxRef(stk))

Top == stack[Len(stack)]
TopObj == heap[Top.ref]
Running(pc) == phase = "solving" /\ stack # <<>> /\ Top.pc = pc

-----------------------------------------------------------------------------
(* The starting grids explored *)

\* the most squares blanked out of the solved grid
MaxHoles == 16

\* a solved grid: every row, column and box holds 1..9
SolvedGrid ==
    [cell \in Cells |->
        ((BoxSide * (cell[1] % BoxSide) + (cell[1] \div BoxSide) + cell[2]) % N) + 1]

\* Four orders in which squares are blanked.  The first comes, at 15 blanks,
\* to a puzzle with one completion that no single-option square opens (Rule B
\* has to find the 6 of square (7,0)); the second blanks a 3x3 Latin square on
\* the digits 1, 4, 7, whose prefixes have 1, 2, 4 and 12 completions; the
\* third blanks the squares that hold the 4, the 2 and the 5 which square
\* (0,0) sees; the fourth comes, at 16 blanks, to a puzzle on the digits 1, 2, 5
\* in which some options of the branching square fail and others succeed.
HoleOrders ==
    << << <<0,0>>, <<0,5>>, <<1,2>>, <<1,5>>, <<2,2>>, <<2,3>>, <<4,4>>, <<4,5>>,
          <<5,1>>, <<5,2>>, <<7,0>>, <<7,3>>, <<7,4>>, <<8,0>>, <<8,1>>, <<5,7>>,
          <<3,4>> >>,
       << <<0,3>>, <<0,6>>, <<1,3>>, <<1,0>>, <<2,0>>, <<2,6>>, <<0,0>>, <<1,6>>,
          <<2,3>>, <<4,4>> >>,
       << <<1,0>>, <<0,1>>, <<0,4>>, <<4,0>> >>,
       << <<1,6>>, <<1,7>>, <<2,3>>, <<2,4>>, <<3,0>>, <<3,3>>, <<3,8>>, <<4,0>>,
          <<4,5>>, <<4,6>>, <<5,3>>, <<5,6>>, <<6,7>>, <<6,8>>, <<7,4>>, <<7,5>>,
          <<8,2>> >> >>

\* One square may be given another digit than the solved grid has there:
\* this is what makes grids with duplicates, and grids without duplicates
\* that have no completion.
NoOverride == [cell |-> <<0, 0>>, digit |-> 0]
Overrides ==
    { NoOverride,
      [cell |-> <<0, 3>>, digit |-> 7],
      [cell |-> <<1, 6>>, digit |-> 7],
      [cell |-> <<0, 0>>, digit |-> 4],
      [cell |-> <<0, 0>>, digit |-> 2],
      [cell |-> <<0, 0>>, digit |-> 5] }

Min(a, b) == IF a <= b THEN a ELSE b

Holes(order, k) == {HoleOrders[order][j] : j \in 1..Min(k, Len(HoleOrders[order]))}

Puzzle(order, k, override) ==
    [cell \in Cells |->
        IF override.digit # 0 /\ cell = override.cell THEN override.digit
        ELSE IF cell \in Holes(order, k) THEN 0
        ELSE SolvedGrid[cell]]

StartingGrids ==
    {Puzzle(order, k, override) :
        order \in 1..Len(HoleOrders), k \in 0..MaxHoles, override \in Overrides}

-----------------------------------------------------------------------------
(* The program *)

Init ==
    /\ starting_grid \in StartingGrids
    /\ phase = "input"
    /\ heap = <<>>
    /\ stack = <<>>
    /\ returned = NoGrid

\* read_squares, lines 41-48: the solver runs only on a grid without duplicates
Validate ==
    /\ phase = "input"
    /\ phase' = IF is_valid_starting_grid(starting_grid) THEN "valid" ELSE "invalid"
    /\ UNCHANGED <<starting_grid, heap, stack, returned>>

\* sudoku_solver, lines 156-165: copy the grid, initialise, call the root
sudoku_solver ==
    /\ phase = "valid"
    /\ LET init == initialise_grid(starting_grid)
       IN  heap' = << [options_grid |-> init.options_grid,
                       output_grid |-> InitialOutputGrid(starting_grid),
                       single_option_squares |-> init.single_option_squares] >>
    /\ stack' = << Frame(1, "while", TRUE) >>
    /\ phase' = "solving"
    /\ UNCHANGED <<starting_grid, returned>>

\* return False: the frame and its objects go; the caller's for loop goes on
\* (lines 219-220), and sudoku_solver reports an unsolvable grid (line 170)
ReturnFalse ==
    /\ stack' = SubSeq(stack, 1, Len(stack) - 1)
    /\ heap' = Collect(heap, stack')
    /\ phase' = IF Len(stack) = 1 THEN "unsolvable" ELSE phase
    /\ UNCHANGED <<starting_grid, returned>>

\* an uncaught exception ends the program
Raise ==
    /\ phase' = "crashed"
    /\ UNCHANGED <<starting_grid, heap, stack, returned>>

SetTop(frame) == stack' = [stack EXCEPT ![Len(stack)] = frame]

\* line 189: while len(single_option_squares) > 0 or first_time is True
WhileTest ==
    /\ Running("while")
    /\ IF TopObj.single_option_squares # {} \/ Top.first_time
       THEN SetTop([Top EXCEPT !.pc = "single_option_processing",
                               !.first_time = FALSE,
                               !.entry = TopObj])
       ELSE SetTop([Top EXCEPT !.pc = "minimum_options_square"])
    /\ UNCHANGED <<starting_grid, phase, heap, returned>>

\* lines 279-320: pop one square, write it, eliminate its option from its peers
SingleOptionStep ==
    /\ Running("single_option_processing")
    /\ \E cell \in TopObj.single_option_squares :
          IF Cardinality(TopObj.options_grid[cell]) # 1
          THEN Raise
          ELSE LET res == SingleOptionPop(TopObj, cell)
               IN  IF res.ok
                   THEN /\ heap' = [heap EXCEPT ![Top.ref] = res.obj]
                        /\ UNCHANGED <<starting_grid, phase, stack, returned>>
                   ELSE ReturnFalse

\* lines 322-323 and 198-199: no pending square is left; a complete grid is returned
SingleOptionDone ==
    /\ Running("single_option_processing")
    /\ TopObj.single_option_squares = {}
    /\ IF is_sudoku_complete(TopObj.output_grid)
       THEN /\ returned' = TopObj.output_grid
            /\ stack' = SubSeq(stack, 1, Len(stack) - 1)
            /\ heap' = Collect(heap, stack')
            /\ phase' = IF Len(stack) = 1 THEN "solved" ELSE "returning"
            /\ UNCHANGED starting_grid
       ELSE /\ SetTop([Top EXCEPT !.pc = "grid_scanning"])
            /\ UNCHANGED <<starting_grid, phase, heap, returned>>

\* line 202: one call of grid_scanning
GridScanning ==
    /\ Running("grid_scanning")
    /\ IF Scannable(TopObj.options_grid) = {}
       THEN heap' = heap
       ELSE \E cell \in Scannable(TopObj.options_grid) :
               heap' = [heap EXCEPT ![Top.ref] = grid_scanning(TopObj, cell)]
    /\ SetTop([Top EXCEPT !.pc = "while"])
    /\ UNCHANGED <<starting_grid, phase, returned>>

\* line 206: the branching square, and the iterator over its options (line 208)
MinimumOptionsSquare ==
    /\ Running("minimum_options_square")
    /\ IF BranchSquares(TopObj.options_grid) = {}
       THEN Raise
       ELSE LET cell == minimum_options_square(TopObj.options_grid)
            IN  /\ SetTop([Top EXCEPT !.pc = "for",
                                      !.min_options_square = cell,
                                      !.options = TopObj.options_grid[cell]])
                /\ UNCHANGED <<starting_grid, phase, heap, returned>>

\* lines 208-217: the next option of the set, in whatever order the set yields
\* them; copy the objects, force the square and call recursively
Branch ==
    /\ Running("for")
    /\ \E option \in Top.options :
          LET copy == DeepCopy(heap, Top.ref)
              cell == Top.min_options_square
          IN  /\ heap' = [copy.heap EXCEPT
                            ![copy.ref] = ForceOption(copy.heap[copy.ref], cell, option)]
              /\ stack' = Append([stack EXCEPT ![Len(stack)].options = @ \ {option}],
                                 Frame(copy.ref, "while", Top.first_time))
    /\ UNCHANGED <<starting_grid, phase, returned>>

\* lines 225-227: every option failed
ForExhausted ==
    /\ Running("for")
    /\ Top.options = {}
    /\ ReturnFalse

\* lines 221-223: a caller hands the solved grid on to its own caller
ReturnUp ==
    /\ phase = "returning"
    /\ stack' = SubSeq(stack, 1, Len(stack) - 1)
    /\ heap' = Collect(heap, stack')
    /\ phase' = IF Len(stack) = 1 THEN "solved" ELSE "returning"
    /\ UNCHANGED <<starting_grid, returned>>

Next ==
    \/ Validate
    \/ sudoku_solver
    \/ WhileTest
    \/ SingleOptionStep
    \/ SingleOptionDone
    \/ GridScanning
    \/ MinimumOptionsSquare
    \/ Branch
    \/ ForExhausted
    \/ ReturnUp

Spec == Init /\ [][Next]_vars

-----------------------------------------------------------------------------
(* What the claims speak about, stated without the solver's own helpers *)

SameRow(c1, c2) == c1[1] = c2[1]
SameCol(c1, c2) == c1[2] = c2[2]
SameBox(c1, c2) ==
    /\ c1[1] \div BoxSide = c2[1] \div BoxSide
    /\ c1[2] \div BoxSide = c2[2] \div BoxSide
Sees(c1, c2) == c1 # c2 /\ (SameRow(c1, c2) \/ SameCol(c1, c2) \/ SameBox(c1, c2))

\* some non-zero digit occurs twice in a row, a column or a box
HasDuplicate(grid) ==
    \E c1 \in Cells, c2 \in Cells :
        grid[c1] # 0 /\ grid[c1] = grid[c2] /\ Sees(c1, c2)

RowDuplicate(grid) ==
    \E c1 \in Cells, c2 \in Cells :
        c1 # c2 /\ SameRow(c1, c2) /\ grid[c1] # 0 /\ grid[c1] = grid[c2]
ColDuplicate(grid) ==
    \E c1 \in Cells, c2 \in Cells :
        c1 # c2 /\ SameCol(c1, c2) /\ grid[c1] # 0 /\ grid[c1] = grid[c2]
BoxDuplicate(grid) ==
    \E c1 \in Cells, c2 \in Cells :
        c1 # c2 /\ SameBox(c1, c2) /\ grid[c1] # 0 /\ grid[c1] = grid[c2]

\* no zero, and no two squares that see each other hold the same digit:
\* every row, column and box then holds each of 1..9 exactly once
IsSolution(grid) ==
    /\ DOMAIN grid = Cells
    /\ \A cell \in Cells : grid[cell] \in Digits
    /\ ~HasDuplicate(grid)

ZeroCells(grid) == {cell \in Cells : grid[cell] = 0}

\* the legal completions of a grid without duplicates: fill the first zero
\* square with every digit none of the squares it sees holds, and go on
RECURSIVE Completions(_)
Completions(grid) ==
    IF ZeroCells(grid) = {}
    THEN {grid}
    ELSE LET cell == CHOOSE c \in ZeroCells(grid) :
                        \A other \in ZeroCells(grid) : RowMajor(c) <= RowMajor(other)
             legal == {digit \in Digits :
                          \A other \in Cells : Sees(cell, other) => grid[other] # digit}
         IN  UNION {Completions([grid EXCEPT ![cell] = digit]) : digit \in legal}

Ended == phase \in {"invalid", "solved", "unsolvable", "crashed"}

\* the objects of the calls in progress
LiveRefs == {stack[i].ref : i \in 1..Len(stack)}

-----------------------------------------------------------------------------
(* Claims *)

\* C1: a grid that sudoku_solver_sub_func returns for a starting grid the
\* validator accepts has no zero square, and every row, every column and every
\* box of it holds each digit 1..9 exactly once.
C1_ReturnedGridIsSolution ==
    (phase \in {"returning", "solved"}) => IsSolution(returned)

\* C1 witness: a grid with blanks was solved through a recursive call
C1_Witness ==
    /\ phase = "returning"
    /\ ZeroCells(starting_grid) # {}
    /\ IsSolution(returned)

\* C6: is_valid_starting_grid returns False exactly when some non-zero digit
\* occurs twice within a row, a column or a box, solvable or not.
C6_ValidatorExact ==
    (phase \in {"valid", "invalid"}) =>
        ((phase = "invalid") <=> HasDuplicate(starting_grid))

\* C6 witness: a grid whose only duplicate is inside a box was rejected
C6_Witness ==
    /\ phase = "invalid"
    /\ BoxDuplicate(starting_grid)
    /\ ~RowDuplicate(starting_grid)
    /\ ~ColDuplicate(starting_grid)

\* C7: a square that is non-zero in the starting grid holds the same digit in
\* the output grid of every call in progress and in the grid returned; a full
\* legal starting grid is therefore returned as it is.
C7_CluesKept ==
    /\ \A ref \in LiveRefs : \A cell \in Cells :
          starting_grid[cell] # 0 => heap[ref].output_grid[cell] = starting_grid[cell]
    /\ returned # NoGrid =>
          \A cell \in Cells :
              starting_grid[cell] # 0 => returned[cell] = starting_grid[cell]

\* C7 witness: a grid with clues and blanks was solved, the clues in place
C7_Witness ==
    /\ phase = "solved"
    /\ ZeroCells(starting_grid) # {}
    /\ \A cell \in Cells : starting_grid[cell] # 0 => returned[cell] = starting_grid[cell]

\* C2: a grid that passes the validator and has no legal completion ends in
\* the Unsolvable signal (False), never in a returned grid and never in an
\* error such as minimum_options_square finding no square with several options.
C2_UnsolvableIsReported ==
    (Ended /\ phase # "invalid" /\ Completions(starting_grid) = {})
        => phase = "unsolvable"

\* C3: a grid that passes the validator and has a legal completion ends with
\* a completion of it returned, not with the Unsolvable signal or an error,
\* whatever the pop order, the scan order and the order of the options.
C3_SolvableIsSolved ==
    (Ended /\ phase # "invalid" /\ Completions(starting_grid) # {})
        => (phase = "solved" /\ returned \in Completions(starting_grid))

\* C3 witness: a grid with several completions, none of whose blanks had a
\* single option at the start, was solved inside a recursive call
C3_Witness ==
    /\ phase = "returning"
    /\ initialise_grid(starting_grid).single_option_squares = {}
    /\ Cardinality(Completions(starting_grid)) > 1
    /\ returned \in Completions(starting_grid)

\* C4: while a branch has not been declared unsolvable, every square of its
\* candidate grid holds at least one option, from initialise_grid on.
C4_NoEmptyCandidateSet ==
    \A ref \in LiveRefs : \A cell \in Cells : heap[ref].options_grid[cell] # {}

\* C5: for a starting grid with exactly one legal completion every run returns
\* that completion, whatever squares the scan and the pops pick.
C5_UniqueCompletionReturned ==
    (Ended /\ phase # "invalid" /\ Cardinality(Completions(starting_grid)) = 1)
        => (phase = "solved" /\ Completions(starting_grid) = {returned})

\* C5 witness: the one completion was returned for a grid Rule B had to open
C5_Witness ==
    /\ phase = "solved"
    /\ Cardinality(Completions(starting_grid)) = 1
    /\ Completions(starting_grid) = {returned}
    /\ initialise_grid(starting_grid).single_option_squares = {}
    /\ ZeroCells(starting_grid) # {}

\* C8: while a call tries the options of its branching square, no step
\* changes its candidate grid, output grid or pending set, and every
\* recursive call starts from those objects with only the branching square
\* forced to one of its options and marked pending.
C8_BranchIsolation ==
    [][ /\ \A i \in 1..Len(stack) :
              (stack[i].pc = "for" /\ i <= Len(stack')) =>
                  /\ stack'[i].ref = stack[i].ref
                  /\ heap'[stack'[i].ref] = heap[stack[i].ref]
        /\ (Len(stack) >= 1 /\ Len(stack') = Len(stack) + 1) =>
              LET caller == heap[Top.ref]
                  cell == Top.min_options_square
                  callee == heap'[stack'[Len(stack')].ref]
              IN  /\ callee.output_grid = caller.output_grid
                  /\ callee.single_option_squares
                        = caller.single_option_squares \cup {cell}
                  /\ \E option \in caller.options_grid[cell] :
                        callee.options_grid
                            = [caller.options_grid EXCEPT ![cell] = {option}]
      ]_vars

\* C8 witness: a second option is being tried after the call for the first failed
C8_Witness ==
    /\ phase = "solving"
    /\ Len(stack) >= 2
    /\ Top.pc = "while"
    /\ LET caller == stack[Len(stack) - 1]
       IN  /\ caller.pc = "for"
           /\ Cardinality(heap[caller.ref].options_grid[caller.min_options_square])
                 >= Cardinality(caller.options) + 2

\* single_option_processing run to its end, the pending squares popped in
\* row-major order
RECURSIVE Exhaust(_)
Exhaust(obj) ==
    IF obj.single_option_squares = {}
    THEN [ok |-> TRUE, obj |-> obj]
    ELSE LET cell == CHOOSE c \in obj.single_option_squares :
                        \A other \in obj.single_option_squares :
                            RowMajor(c) <= RowMajor(other)
         IN  IF Cardinality(obj.options_grid[cell]) # 1
             THEN [ok |-> FALSE, obj |-> obj]
             ELSE LET res == SingleOptionPop(obj, cell)
                  IN  IF res.ok THEN Exhaust(res.obj) ELSE res

\* the verdict and, on success, the grids of two runs agree
SameOutcome(a, b) ==
    /\ a.ok = b.ok
    /\ a.ok => /\ a.obj.options_grid = b.obj.options_grid
               /\ a.obj.output_grid = b.obj.output_grid

\* C9: whatever order the pending squares are popped in, a call of
\* single_option_processing ends with the verdict that popping them in
\* row-major order from the same objects gives and, on success, with the same
\* candidate grid and output grid.
C9_RuleAOrderIndependent ==
    [][ (Running("single_option_processing") /\ TopObj.single_option_squares # {}) =>
            /\ Len(stack') < Len(stack) => ~Exhaust(Top.entry).ok
            /\ (/\ phase' = "solving"
                /\ Len(stack') = Len(stack)
                /\ heap'[Top.ref].single_option_squares = {})
                   => SameOutcome([ok |-> TRUE, obj |-> heap'[Top.ref]],
                                  Exhaust(Top.entry))
      ]_vars

\* C9 witness: a call that began with three pending squares, the first one in
\* row-major order not among those left, has emptied the pending set
C9_Witness ==
    /\ Running("single_option_processing")
    /\ TopObj.single_option_squares = {}
    /\ Cardinality(Top.entry.single_option_squares) >= 3
    /\ TopObj.output_grid # Top.entry.output_grid

Filled(output_grid) == Cardinality({cell \in Cells : output_grid[cell] # 0})

\* C10: the recursive calls below the root are never more than the zero
\* squares of the starting grid, and a call that has come to branch has
\* confirmed at least one more square than its caller had.
C10_DepthBounded ==
    /\ Len(stack) <= Cardinality(ZeroCells(starting_grid)) + 1
    /\ \A i \in 2..Len(stack) :
          stack[i].pc \in {"minimum_options_square", "for"} =>
              Filled(heap[stack[i].ref].output_grid)
                  > Filled(heap[stack[i - 1].ref].output_grid)

\* C10 witness: a call two levels below the root has come to branch
C10_Witness ==
    /\ Len(stack) >= 3
    /\ Top.pc = "for"

\* the squares that hold exactly one option and are not yet written to the
\* output grid
OneOptionUnwritten(obj) ==
    {cell \in Cells :
        Cardinality(obj.options_grid[cell]) = 1 /\ obj.output_grid[cell] = 0}

\* C11: in every call that has not failed, between any two steps (after
\* initialise_grid, after each pop-and-eliminate iteration, after each
\* grid_scanning call, on entry to a recursive call), single_option_squares
\* is exactly the set of squares with one option and a zero output entry;
\* so every square about to be popped holds one option, and a call that has
\* stalled has no unwritten square with exactly one option.
C11_PendingSetExact ==
    \A i \in 1..Len(stack) :
        LET obj == heap[stack[i].ref]
        IN  /\ obj.single_option_squares = OneOptionUnwritten(obj)
            /\ \A cell \in obj.single_option_squares :
                  Cardinality(obj.options_grid[cell]) = 1
            /\ stack[i].pc \in {"minimum_options_square", "for"} =>
                  \A cell \in Cells :
                      obj.output_grid[cell] = 0 =>
                          Cardinality(obj.options_grid[cell]) # 1

\* C11 witness: inside a recursive call a pop-and-eliminate iteration has
\* written a square and left two or more squares pending
C11_Witness ==
    /\ Running("single_option_processing")
    /\ Len(stack) >= 2
    /\ TopObj.output_grid # Top.entry.output_grid
    /\ Cardinality(TopObj.single_option_squares) >= 2

====
